---- MODULE Spec2Model ----
(***************************************************************************)
(* Nexus agent loop: the reasoning node (agent_node) with its context      *)
(* window, the routing function (should_continue), the approval node and   *)
(* the chat driver that seeds one turn per user message.                   *)
(*                                                                         *)
(* Text is kept run-length encoded: a text is a sequence of runs           *)
(* [c |-> character, n |-> repetitions] in which neighbouring runs carry   *)
(* different characters, so two texts are equal exactly when their         *)
(* encodings are equal and a 12,000-character message stays a short value. *)
(* The agent state is the dictionary the graph hands to each node: a       *)
(* function from field names to values, in which a field may be absent.    *)
(***************************************************************************)
EXTENDS Integers, Sequences, FiniteSets, TLC

\* ------------------------------------------------------------------ bounds
\* settings.max_iterations is drawn from 1..MaxIterationsCap
MaxIterationsCap == 3
\* an assistant response carries 0..MaxToolCalls tool calls
MaxToolCalls == 2
\* user messages processed in one session
MaxTurns == 1

\* ------------------------------------------------------- program constants
max_text_chars == 10000
max_recent_messages == 15

\* -------------------------------------------------------------------- text
\* len(content)
RECURSIVE len(_)
len(s) == IF s = <<>> THEN 0 ELSE s[1].n + len(Tail(s))

\* content[:k]
RECURSIVE Slice(_, _)
Slice(s, k) ==
    IF k <= 0 \/ s = <<>> THEN <<>>
    ELSE IF s[1].n <= k THEN <<s[1]>> \o Slice(Tail(s), k - s[1].n)
    ELSE <<[c |-> s[1].c, n |-> k]>>

\* a + b
Concat(a, b) ==
    IF a = <<>> THEN b
    ELSE IF b = <<>> THEN a
    ELSE IF a[Len(a)].c = b[1].c
         THEN SubSeq(a, 1, Len(a) - 1)
              \o <<[c |-> b[1].c, n |-> a[Len(a)].n + b[1].n]>>
              \o Tail(b)
         ELSE a \o b

\* the text made of n copies of the character ch
Rep(ch, n) == IF n <= 0 THEN <<>> ELSE <<[c |-> ch, n |-> n]>>

\* the text spelled by a sequence of characters
RECURSIVE Text(_)
Text(chars) ==
    IF chars = <<>> THEN <<>>
    ELSE Concat(Rep(Head(chars), 1), Text(Tail(chars)))

\* "... (truncated for context safety)"
marker ==
    Text(<<".", ".", ".", " ", "(", "t", "r", "u", "n", "c", "a", "t", "e",
           "d", " ", "f", "o", "r", " ", "c", "o", "n", "t", "e", "x", "t",
           " ", "s", "a", "f", "e", "t", "y", ")">>)

\* SYSTEM_PROMPT (+ mcp_context)
full_system_prompt == Text(<<"Y", "o", "u", " ", "a", "r", "e">>)

\* ---------------------------------------------------------------- messages
HumanMessage(content) ==
    [type |-> "human", content |-> content, tool_calls |-> <<>>, tool_call_id |-> 0]

AIMessage(content, tool_calls) ==
    [type |-> "ai", content |-> content, tool_calls |-> tool_calls, tool_call_id |-> 0]

SystemMessage(content) ==
    [type |-> "system", content |-> content, tool_calls |-> <<>>, tool_call_id |-> 0]

ToolMessage(content, tool_call_id) ==
    [type |-> "tool", content |-> content, tool_calls |-> <<>>, tool_call_id |-> tool_call_id]

\* ------------------------------------------------------------- agent state
\* state.get(key, default)
Get(d, key, default) == IF key \in DOMAIN d THEN d[key] ELSE default

\* the state of a thread that has no checkpoint: no field is set
EmptyState == [k \in {} |-> 0]

\* the graph's merge of a node's (or the caller's) partial update into the
\* state: messages are appended, every other field is overwritten
apply_update(st, patch) ==
    [k \in DOMAIN st \cup DOMAIN patch |->
        IF k \notin DOMAIN patch THEN st[k]
        ELSE IF k = "messages" THEN Get(st, "messages", <<>>) \o patch[k]
        ELSE patch[k]]

\* ------------------------------------------------------------- checkpoints
\* a message as the checkpoint store holds it: the tuple of its fields
dump_message(m) == <<m.type, m.content, m.tool_calls, m.tool_call_id>>

\* the message read back from its stored tuple
load_message(t) ==
    [type |-> t[1], content |-> t[2], tool_calls |-> t[3], tool_call_id |-> t[4]]

\* the snapshot written for a state: every field that is set, the messages
\* in their order
dumps(st) ==
    [k \in DOMAIN st |->
        IF k = "messages"
        THEN [i \in 1..Len(st[k]) |-> dump_message(st[k][i])]
        ELSE st[k]]

\* the state read back from a snapshot; the snapshot of a thread without
\* checkpoint has no field and gives the state without fields
loads(snapshot) ==
    [k \in DOMAIN snapshot |->
        IF k = "messages"
        THEN [i \in 1..Len(snapshot[k]) |-> load_message(snapshot[k][i])]
        ELSE snapshot[k]]

\* _chat showing ASK when there are no values
shown_mode_ask(values) ==
    IF values # EmptyState THEN Get(values, "current_mode", "CODE") ELSE "ASK"

\* the mode _chat shows for the values it read: CODE when there are none
shown_mode(values) ==
    IF values # EmptyState THEN Get(values, "current_mode", "CODE") ELSE "CODE"


\* ------------------------------------------------------------- agent_node
\* rewrite_content without the marker
rewrite_content_nomarker(content) ==
    IF len(content) > max_text_chars
    THEN Slice(content, max_text_chars)
    ELSE content

\* the marker put after a longer content that is not cut
rewrite_content_uncut(content) ==
    IF len(content) > max_text_chars
    THEN Concat(content, marker)
    ELSE content

\* the content the loop leaves in a message: cut to max_text_chars and
\* followed by the marker when it is longer
rewrite_content(content) ==
    IF len(content) > max_text_chars
    THEN Concat(Slice(content, max_text_chars), marker)
    ELSE content

RECURSIVE for_m_in_messages_keepsystem(_)
\* the loop without the isinstance(m, SystemMessage) test
for_m_in_messages_keepsystem(messages) ==
    IF messages = <<>> THEN [stored |-> <<>>, processed |-> <<>>]
    ELSE LET m == Head(messages)
             rest == for_m_in_messages_keepsystem(Tail(messages))
             m2 == [m EXCEPT !.content = rewrite_content(m.content)]
         IN [stored |-> <<m2>> \o rest.stored,
             processed |-> <<m2>> \o rest.processed]

RECURSIVE for_m_in_messages_copy(_)
\* the loop rewriting a copy of each message: the history keeps its contents
for_m_in_messages_copy(messages) ==
    IF messages = <<>> THEN [stored |-> <<>>, processed |-> <<>>]
    ELSE LET m == Head(messages)
             rest == for_m_in_messages_copy(Tail(messages))
         IN IF m.type = "system"
            THEN [stored |-> <<m>> \o rest.stored, processed |-> rest.processed]
            ELSE LET m2 == [m EXCEPT !.content = rewrite_content(m.content)]
                 IN [stored |-> <<m>> \o rest.stored,
                     processed |-> <<m2>> \o rest.processed]

\* the loop over the history: system messages are skipped (and left as they
\* are), every other message is rewritten in place and collected.
\* stored is the history as the loop leaves it, processed is
\* processed_messages.
for_m_in_messages(messages) ==
    LET appended(m) == m.type # "system"
        stored ==
            [i \in 1..Len(messages) |->
                IF appended(messages[i])
                THEN [messages[i] EXCEPT !.content = rewrite_content(@)]
                ELSE messages[i]]
    IN [stored |-> stored, processed |-> SelectSeq(stored, appended)]

\* the window taken from the front: processed_messages[:max_recent_messages]
recent_window_front(processed_messages) ==
    IF Len(processed_messages) > max_recent_messages
    THEN SubSeq(processed_messages, 1, max_recent_messages)
    ELSE processed_messages

\* the window one entry too long: processed_messages[-(max_recent_messages+1):]
recent_window_offbyone(processed_messages) ==
    IF Len(processed_messages) > max_recent_messages
    THEN SubSeq(processed_messages,
                Len(processed_messages) - max_recent_messages,
                Len(processed_messages))
    ELSE processed_messages

\* processed_messages[-max_recent_messages:] when the list is longer
recent_window(processed_messages) ==
    IF Len(processed_messages) > max_recent_messages
    THEN SubSeq(processed_messages,
                Len(processed_messages) - max_recent_messages + 1,
                Len(processed_messages))
    ELSE processed_messages

\* final_messages, the list handed to llm_with_tools.invoke
build_final_messages(messages) ==
    <<SystemMessage(full_system_prompt)>>
    \o recent_window(for_m_in_messages(messages).processed)

\* agent_node also clearing the approval flag
agent_node_clearsflag(st, response) ==
    [messages |-> <<response>>,
     iteration_count |-> Get(st, "iteration_count", 0) + 1,
     approval_granted |-> FALSE]

\* the partial update agent_node returns for a response of the model
agent_node(st, response) ==
    [messages |-> <<response>>,
     iteration_count |-> Get(st, "iteration_count", 0) + 1]

\* the tool calls of a response appended at position pos of the history
tool_name(i) == IF i = 1 THEN "read_file" ELSE "run_shell"

new_tool_calls(pos, k) ==
    [i \in 1..k |-> [id |-> 10 * pos + i, name |-> tool_name(i)]]

\* what the model may answer to a history of n messages: a final answer or
\* an answer with MaxToolCalls tool calls
Responses(n) ==
    {AIMessage(Rep("a", 2), new_tool_calls(n + 1, k)) : k \in {0, MaxToolCalls}}

\* ------------------------------------------------------------------ state
VARIABLES
    state,            \* the thread's agent state held by the running graph
    checkpoint,       \* the latest persisted checkpoint of the thread
    pc,               \* where the loop is
    max_iterations,   \* settings.max_iterations
    approval_required,\* settings.approval_required
    final_messages,   \* the list the last agent_node call sent to the model
    route,            \* the last result of should_continue
    reason_steps,     \* agent_node calls of the current turn
    always_tools,     \* every response of the current turn carried a tool call
    turns,            \* user messages processed so far
    prompt,           \* what the approval prompt last showed and was told
    results,          \* results of the last tool calls, in completion order
    executed,         \* ids of the tool calls that were executed
    other,            \* a second chat session on the same thread
    command,          \* the last / command run: its arguments and its context
    memory,           \* ConversationMemory.messages
    call              \* the last ConversationMemory method called and its result

vars == <<state, checkpoint, pc, max_iterations, approval_required,
          final_messages, route, reason_steps, always_tools, turns,
          prompt, results, executed, other, command, memory, call>>

\* no approval prompt is open
NoPrompt == [calls |-> <<>>, reply |-> "none"]

\* no second session runs
NoSession == [pc |-> "OFF", state |-> EmptyState]

\* no ConversationMemory method was called
NoCall == [op |-> "none", arg |-> 0, value |-> <<>>]

\* no command was run
NoCommand == [args |-> <<>>, context |-> {}, ran |-> FALSE]

\* ---------------------------------------------------------- should_continue
\* should_continue testing the tool calls before the iteration cap
should_continue_toolsfirst(st) ==
    LET messages == st["messages"]
        last_message == messages[Len(messages)]
    IN IF last_message.type = "ai" /\ last_message.tool_calls # <<>>
       THEN IF approval_required THEN "request_approval" ELSE "continue"
       ELSE "end"

\* should_continue with > in place of >=
should_continue_gt(st) ==
    LET messages == st["messages"]
        last_message == messages[Len(messages)]
    IN IF Get(st, "iteration_count", 0) > max_iterations THEN "end"
       ELSE IF last_message.type = "ai" /\ last_message.tool_calls # <<>>
            THEN IF approval_required THEN "request_approval" ELSE "continue"
            ELSE "end"

\* should_continue ignoring settings.approval_required
\* the cap reached one iteration early
should_continue_capearly(st) ==
    LET messages == st["messages"]
        last_message == messages[Len(messages)]
    IN IF Get(st, "iteration_count", 0) + 1 >= max_iterations THEN "end"
       ELSE IF last_message.type = "ai" /\ last_message.tool_calls # <<>>
            THEN IF approval_required THEN "request_approval" ELSE "continue"
            ELSE "end"

should_continue_noapproval(st) ==
    LET messages == st["messages"]
        last_message == messages[Len(messages)]
    IN IF Get(st, "iteration_count", 0) >= max_iterations THEN "end"
       ELSE IF last_message.type = "ai" /\ last_message.tool_calls # <<>>
            THEN "continue"
            ELSE "end"

should_continue(st) ==
    LET messages == st["messages"]
        last_message == messages[Len(messages)]
    IN IF Get(st, "iteration_count", 0) >= max_iterations THEN "end"
       ELSE IF last_message.type = "ai" /\ last_message.tool_calls # <<>>
            THEN IF approval_required THEN "request_approval" ELSE "continue"
            ELSE "end"

\* the edges of the graph leaving the routing decision
route_target(decision) ==
    CASE decision = "end" -> "DONE"
      [] decision = "request_approval" -> "APPROVE"
      [] decision = "continue" -> "EXECUTE_TOOLS"

\* ------------------------------------------------------------ approval_node
\* approval_node that also starts the iteration count again
approval_node_resetcount(st, approved) ==
    [approval_granted |-> approved, pending_approval |-> FALSE,
     iteration_count |-> 0]

\* approval_node that leaves the approval pending
approval_node_pending(st, approved) ==
    [approval_granted |-> approved, pending_approval |-> TRUE]

approval_node(st, approved) ==
    [approval_granted |-> approved, pending_approval |-> FALSE]

\* one rejection message per pending call, in call order
rejection_messages(tool_calls) ==
    [i \in 1..Len(tool_calls) |->
        ToolMessage(Text(<<"n", "o">>), tool_calls[i].id)]

\* Confirm.ask: "y" and "n" answer, the empty reply takes the default
Replies == {"y", "n", ""}

\* Confirm.ask that takes the empty reply as a no
confirm_ask_emptyno(reply, default) == reply = "y"

confirm_ask(reply, default) == IF reply = "" THEN default ELSE reply = "y"

\* the result recorded for a call id among the completed results
result_of(results_, id) ==
    (CHOOSE r \in {results_[j] : j \in 1..Len(results_)} : r.tool_call_id = id).content

\* the result messages in the order the calls completed
tool_node_unsorted(tool_calls, results_) ==
    [i \in 1..Len(results_) |->
        ToolMessage(results_[i].content, results_[i].tool_call_id)]

\* one result message per call, in call order, whatever order the calls
\* completed in
tool_node(tool_calls, results_) ==
    [i \in 1..Len(tool_calls) |->
        ToolMessage(result_of(results_, tool_calls[i].id), tool_calls[i].id)]

\* what a tool may return
ToolResults == {Rep("r", 3)}

\* ------------------------------------------------------------------- driver
\* input_state that leaves the thread's iteration count as it is
input_state_keepscount(message) ==
    [messages |-> <<HumanMessage(message)>>,
     working_directory |-> "wd",
     tool_calls_made |-> <<>>,
     files_modified |-> <<>>]

\* input_state of _process_message
input_state(message) ==
    [messages |-> <<HumanMessage(message)>>,
     iteration_count |-> 0,
     working_directory |-> "wd",
     tool_calls_made |-> <<>>,
     files_modified |-> <<>>]

\* what the user may type: a short message or one of 12,000 characters
UserInputs ==
    {Rep("u", 2), Concat(Rep("u", 5), Rep("v", 11995))}

\* a history of n messages, human and assistant in turn, the i-th of i
\* characters; the last one has the content last
history(n, last) ==
    [i \in 1..n |->
        LET content == IF i = n THEN last ELSE Rep("m", i)
        IN IF i % 2 = 1 THEN HumanMessage(content) ELSE AIMessage(content, <<>>)]

\* the states earlier turns left in the checkpoint store: no checkpoint, or
\* a history of 14 or 20 messages whose last answer is short or long, with
\* the iteration count the last turn ended on and the mode a /mode command
\* left
RestoredStates ==
    {EmptyState}
    \cup {[messages |-> history(n, last),
           iteration_count |-> n \div 10,
           current_mode |-> IF n = 20 THEN "ASK" ELSE "CODE",
           working_directory |-> "wd",
           tool_calls_made |-> <<>>,
           files_modified |-> <<>>] :
            n \in {14, 20},
            last \in {Rep("z", 4), Rep("z", 12000)}}

Init ==
    /\ state \in RestoredStates
    /\ checkpoint = dumps(state)
    /\ pc = "IDLE"
    /\ max_iterations \in 1..MaxIterationsCap
    /\ approval_required \in BOOLEAN
    /\ final_messages = <<>>
    /\ route = "none"
    /\ reason_steps = 0
    /\ always_tools = TRUE
    /\ turns = 0
    /\ prompt = NoPrompt
    /\ results = <<>>
    /\ executed = {}
    /\ other = NoSession
    /\ command = NoCommand
    /\ memory = <<>>
    /\ call = NoCall

\* _process_message invoking the graph without the thread's checkpointer
ProcessMessage_unsaved ==
    /\ pc \in {"IDLE", "DONE"}
    /\ turns < MaxTurns
    /\ \E message \in UserInputs :
          state' = apply_update(loads(checkpoint), input_state(message))
    /\ pc' = "REASON"
    /\ reason_steps' = 0
    /\ always_tools' = TRUE
    /\ turns' = turns + 1
    /\ UNCHANGED <<checkpoint, max_iterations, approval_required,
                   final_messages, route, prompt, results, executed, other,
                   command, memory, call>>

\* _process_message: the run starts from the thread's latest checkpoint,
\* seeded with the user's message
ProcessMessage ==
    /\ pc \in {"IDLE", "DONE"}
    /\ turns < MaxTurns
    /\ \E message \in UserInputs :
          state' = apply_update(loads(checkpoint), input_state(message))
    /\ checkpoint' = dumps(state')
    /\ pc' = "REASON"
    /\ reason_steps' = 0
    /\ always_tools' = TRUE
    /\ turns' = turns + 1
    /\ UNCHANGED <<max_iterations, approval_required, final_messages, route,
                   prompt, results, executed, other,
                   command, memory, call>>

\* agent_node, the model answers
AgentNode ==
    /\ pc = "REASON"
    /\ LET messages == state["messages"]
           loop == for_m_in_messages(messages)
       IN /\ final_messages' = build_final_messages(messages)
          /\ \E response \in Responses(Len(messages)) :
                /\ state' = apply_update([state EXCEPT !["messages"] = loop.stored],
                                         agent_node(state, response))
                /\ always_tools' = (always_tools /\ response.tool_calls # <<>>)
    /\ checkpoint' = dumps(state')
    /\ pc' = "ROUTE"
    /\ reason_steps' = reason_steps + 1
    /\ results' = <<>>
    /\ UNCHANGED <<max_iterations, approval_required, route, turns,
                   prompt, executed, other,
                   command, memory, call>>

\* agent_node, llm_with_tools.invoke raises
AgentNodeFail ==
    /\ pc = "REASON"
    /\ LET messages == state["messages"]
           loop == for_m_in_messages(messages)
       IN /\ final_messages' = build_final_messages(messages)
          /\ state' = [state EXCEPT !["messages"] = loop.stored]
    /\ pc' = "ABORTED"
    /\ results' = <<>>
    /\ UNCHANGED <<checkpoint, max_iterations, approval_required, route,
                   reason_steps, always_tools, turns,
                   prompt, executed, other,
                   command, memory, call>>

\* a conditional edge that counts its own evaluation as an iteration
Route_counts ==
    /\ pc = "ROUTE"
    /\ route' = should_continue(state)
    /\ pc' = route_target(route')
    /\ state' = [state EXCEPT !["iteration_count"] = @ + 1]
    /\ checkpoint' = dumps(state')
    /\ UNCHANGED <<max_iterations, approval_required,
                   final_messages, reason_steps, always_tools, turns,
                   prompt, results, executed, other,
                   command, memory, call>>

\* the conditional edge after the agent node
Route ==
    /\ pc = "ROUTE"
    /\ route' = should_continue(state)
    /\ pc' = route_target(route')
    /\ UNCHANGED <<state, checkpoint, max_iterations, approval_required,
                   final_messages, reason_steps, always_tools, turns,
                   prompt, results, executed, other,
                   command, memory, call>>

\* approval_node: the pending calls are shown, the reviewer answers, the two
\* approval fields are set; an approval leads to the tool node
ApprovalNode ==
    /\ pc = "APPROVE"
    /\ prompt.reply = "none"
    /\ \E reply \in Replies :
          LET last_message == state["messages"][Len(state["messages"])]
              approved == confirm_ask(reply, TRUE)
          IN /\ prompt' = [calls |-> last_message.tool_calls, reply |-> reply]
             /\ state' = apply_update(state, approval_node(state, approved))
             /\ pc' = IF approved THEN "EXECUTE_TOOLS" ELSE "APPROVE"
    /\ checkpoint' = dumps(state')
    /\ UNCHANGED <<max_iterations, approval_required, final_messages, route,
                   reason_steps, always_tools, turns, results, executed, other,
                   command, memory, call>>

\* after a denial: a rejection message is appended for every pending call
\* and the loop goes back to the agent node
Reject ==
    /\ pc = "APPROVE"
    /\ prompt.reply # "none"
    /\ LET last_message == state["messages"][Len(state["messages"])]
       IN state' = apply_update(state,
                      [messages |-> rejection_messages(last_message.tool_calls)])
    /\ checkpoint' = dumps(state')
    /\ pc' = "REASON"
    /\ prompt' = NoPrompt
    /\ UNCHANGED <<max_iterations, approval_required, final_messages, route,
                   reason_steps, always_tools, turns, results, executed, other,
                   command, memory, call>>

\* one of the pending calls completes; the calls run side by side and
\* complete in any order
ToolComplete ==
    /\ pc = "EXECUTE_TOOLS"
    /\ LET tool_calls == state["messages"][Len(state["messages"])].tool_calls
       IN \E i \in 1..Len(tool_calls), content \in ToolResults :
             /\ \A j \in 1..Len(results) : results[j].tool_call_id # tool_calls[i].id
             /\ results' = Append(results,
                               [tool_call_id |-> tool_calls[i].id, content |-> content])
             /\ executed' = executed \cup {tool_calls[i].id}
    /\ prompt' = NoPrompt
    /\ UNCHANGED <<state, checkpoint, pc, max_iterations, approval_required,
                   final_messages, route, reason_steps, always_tools, turns, other,
                   command, memory, call>>

\* the tool node: all calls have completed, their result messages are
\* appended
ToolNode ==
    /\ pc = "EXECUTE_TOOLS"
    /\ LET tool_calls == state["messages"][Len(state["messages"])].tool_calls
       IN /\ Len(results) = Len(tool_calls)
          /\ state' = apply_update(state,
                         [messages |-> tool_node(tool_calls, results)])
    /\ checkpoint' = dumps(state')
    /\ pc' = "REASON"
    /\ UNCHANGED <<max_iterations, approval_required, final_messages, route,
                   reason_steps, always_tools, turns, prompt, results,
                   executed, other,
                   command, memory, call>>

\* the session ended by the provider error is started again: the state is
\* read back from the checkpoint store
Restart ==
    /\ pc = "ABORTED"
    /\ state' = loads(checkpoint)
    /\ pc' = "IDLE"
    /\ UNCHANGED <<checkpoint, max_iterations, approval_required,
                   final_messages, route, reason_steps, always_tools, turns,
                   prompt, results, executed, other,
                   command, memory, call>>

Next ==
    \/ ProcessMessage
    \/ AgentNode
    \/ AgentNodeFail
    \/ Route
    \/ ApprovalNode
    \/ Reject
    \/ ToolComplete
    \/ ToolNode
    \/ Restart

Spec == Init /\ [][Next]_vars

\* ------------------------------------------------ every call returns
\* the steps of a turn whose calls to the model all return an answer
NextLive ==
    \/ ProcessMessage
    \/ AgentNode
    \/ Route
    \/ ApprovalNode
    \/ Reject
    \/ ToolComplete
    \/ ToolNode

\* the graph run awaited by _process_message goes on as long as a step is
\* left to take: the model answers, the reviewer answers, the tools complete
LoopStep ==
    AgentNode \/ Route \/ ApprovalNode \/ Reject \/ ToolComplete \/ ToolNode

\* a session on a fresh thread
InitLive ==
    /\ Init
    /\ state = EmptyState

SpecLive == InitLive /\ [][NextLive]_vars /\ WF_vars(LoopStep)

\* ------------------------------------------------------------ /mode
\* str.upper on the words a /mode command is given
upper_asis(s) == s

upper(s) ==
    CASE s = "code" -> "CODE"
      [] s = "Architect" -> "ARCHITECT"
      [] s = "ask" -> "ASK"
      [] s = "fast" -> "FAST"
      [] OTHER -> s

\* the arguments a /mode command is given: none, a mode in lower, mixed and
\* upper case, no mode, a mode followed by a further word
ModeArgs ==
    {<<>>, <<"code">>, <<"Architect">>, <<"ASK">>, <<"fast">>, <<"ask", "now">>}

\* the keys of the context: none (or no context), the reader only, both
Contexts == {{}, {"get_state"}, {"get_state", "update_state"}}

\* ModeCommand.execute: the values it passes to update_state, one after the
\* other; none when it only prints
execute(args, context) ==
    IF args = <<>> THEN <<>>
    ELSE LET mode_name == upper(args[1])
         IN IF mode_name \notin {"CODE", "ARCHITECT", "ASK"} THEN <<>>
            ELSE IF "update_state" \in context
                 THEN <<[current_mode |-> mode_name]>>
                 ELSE <<>>

RECURSIVE update_state(_, _)
\* agent.aupdate_state for each value passed, in turn
update_state(st, new_values) ==
    IF new_values = <<>> THEN st
    ELSE update_state(apply_update(st, Head(new_values)), Tail(new_values))

\* the states a /mode command is run on: what earlier turns left on the
\* thread, and states with every field set
ModeInputs ==
    RestoredStates
    \cup {[messages |-> history(n, Rep("z", 4)),
           iteration_count |-> 2,
           approval_granted |-> g,
           pending_approval |-> FALSE,
           current_mode |-> mode,
           working_directory |-> "wd",
           tool_calls_made |-> <<>>,
           files_modified |-> <<>>] :
            n \in {2, 3}, g \in BOOLEAN, mode \in {"CODE", "ARCHITECT"}}

InitMode ==
    /\ state \in ModeInputs
    /\ checkpoint = dumps(state)
    /\ pc = "IDLE"
    /\ max_iterations = MaxIterationsCap
    /\ approval_required = FALSE
    /\ final_messages = <<>>
    /\ route = "none"
    /\ reason_steps = 0
    /\ always_tools = TRUE
    /\ turns = 0
    /\ prompt = NoPrompt
    /\ results = <<>>
    /\ executed = {}
    /\ other = NoSession
    /\ command = NoCommand
    /\ memory = <<>>
    /\ call = NoCall

\* the user types a /mode command at the prompt: the command gets the state
\* read from the thread and writes through agent.aupdate_state
ModeCommand ==
    /\ pc \in {"IDLE", "DONE"}
    /\ \E args \in ModeArgs, context \in Contexts :
          /\ command' = [args |-> args, context |-> context, ran |-> TRUE]
          /\ state' = update_state(loads(checkpoint), execute(args, context))
    /\ checkpoint' = dumps(state')
    /\ UNCHANGED <<pc, max_iterations, approval_required, final_messages,
                   route, reason_steps, always_tools, turns, prompt, results,
                   executed, other, memory, call>>

NextMode == ModeCommand

SpecMode == InitMode /\ [][NextMode]_vars

\* ------------------------------------------------- ConversationMemory
\* the longest history the store is driven to
MaxStored == 3

\* the contents given to add_user_message and add_ai_message
Contents == {Rep("a", 1), Rep("b", 2)}

\* the counts given to get_last_n_messages
Counts == (0 - 2)..(MaxStored + 1)

\* a Python slice lst[start:] : a negative start counts from the end and is
\* clamped to the front of the list
slice_from(lst, start) ==
    LET from == IF start < 0
                THEN (IF Len(lst) + start < 0 THEN 0 ELSE Len(lst) + start)
                ELSE (IF start > Len(lst) THEN Len(lst) ELSE start)
    IN SubSeq(lst, from + 1, Len(lst))

\* get_last_n_messages without the n > 0 condition
get_last_n_messages_unguarded(messages, n) == slice_from(messages, 0 - n)

\* get_last_n_messages: self.messages[-n:] if n > 0 else []
get_last_n_messages(messages, n) ==
    IF n > 0 THEN slice_from(messages, 0 - n) ELSE <<>>

InitMemory ==
    /\ state = EmptyState
    /\ checkpoint = EmptyState
    /\ pc = "IDLE"
    /\ max_iterations = MaxIterationsCap
    /\ approval_required = FALSE
    /\ final_messages = <<>>
    /\ route = "none"
    /\ reason_steps = 0
    /\ always_tools = TRUE
    /\ turns = 0
    /\ prompt = NoPrompt
    /\ results = <<>>
    /\ executed = {}
    /\ other = NoSession
    /\ command = NoCommand
    /\ memory = <<>>
    /\ call = NoCall

add_user_message ==
    /\ Len(memory) < MaxStored
    /\ \E content \in Contents :
          /\ memory' = Append(memory, HumanMessage(content))
          /\ call' = [op |-> "add_user_message", arg |-> content, value |-> <<>>]
    /\ UNCHANGED <<state, checkpoint, pc, max_iterations, approval_required,
                   final_messages, route, reason_steps, always_tools, turns,
                   prompt, results, executed, other, command>>

add_ai_message ==
    /\ Len(memory) < MaxStored
    /\ \E content \in Contents :
          /\ memory' = Append(memory, AIMessage(content, <<>>))
          /\ call' = [op |-> "add_ai_message", arg |-> content, value |-> <<>>]
    /\ UNCHANGED <<state, checkpoint, pc, max_iterations, approval_required,
                   final_messages, route, reason_steps, always_tools, turns,
                   prompt, results, executed, other, command>>

get_messages ==
    /\ call' = [op |-> "get_messages", arg |-> 0, value |-> memory]
    /\ UNCHANGED <<state, checkpoint, pc, max_iterations, approval_required,
                   final_messages, route, reason_steps, always_tools, turns,
                   prompt, results, executed, other, command, memory>>

GetLastNMessages ==
    /\ \E n \in Counts :
          call' = [op |-> "get_last_n_messages", arg |-> n,
                   value |-> get_last_n_messages(memory, n)]
    /\ UNCHANGED <<state, checkpoint, pc, max_iterations, approval_required,
                   final_messages, route, reason_steps, always_tools, turns,
                   prompt, results, executed, other, command, memory>>

clear ==
    /\ memory' = <<>>
    /\ call' = [op |-> "clear", arg |-> 0, value |-> <<>>]
    /\ UNCHANGED <<state, checkpoint, pc, max_iterations, approval_required,
                   final_messages, route, reason_steps, always_tools, turns,
                   prompt, results, executed, other, command>>

NextMemory ==
    add_user_message \/ add_ai_message \/ get_messages \/ GetLastNMessages \/ clear

SpecMemory == InitMemory /\ [][NextMemory]_vars

\* ------------------------------------------------- two sessions, one thread
\* what the user of the second session types
OtherInput == Rep("w", 2)

\* a fresh thread, the approval gate in use, at most two iterations a turn;
\* the second session has read the thread and waits for its user
InitTwo ==
    /\ state = EmptyState
    /\ checkpoint = dumps(state)
    /\ pc = "IDLE"
    /\ max_iterations = 2
    /\ approval_required = TRUE
    /\ final_messages = <<>>
    /\ route = "none"
    /\ reason_steps = 0
    /\ always_tools = TRUE
    /\ turns = 0
    /\ prompt = NoPrompt
    /\ results = <<>>
    /\ executed = {}
    /\ other = [pc |-> "IDLE", state |-> loads(checkpoint)]
    /\ command = NoCommand
    /\ memory = <<>>
    /\ call = NoCall

\* _process_message of the second session: its run starts from the thread's
\* latest checkpoint
OtherProcessMessage ==
    /\ other.pc = "IDLE"
    /\ LET st == apply_update(loads(checkpoint), input_state(OtherInput))
       IN /\ other' = [pc |-> "REASON", state |-> st]
          /\ checkpoint' = dumps(st)
    /\ UNCHANGED <<state, pc, max_iterations, approval_required,
                   final_messages, route, reason_steps, always_tools, turns,
                   prompt, results, executed,
                   command, memory, call>>

\* agent_node of the second session; the model answers without tool calls
OtherAgentNode ==
    /\ other.pc = "REASON"
    /\ LET messages == other.state["messages"]
           loop == for_m_in_messages(messages)
       IN \E response \in {r \in Responses(Len(messages)) : r.tool_calls = <<>>} :
             LET st == apply_update([other.state EXCEPT !["messages"] = loop.stored],
                                    agent_node(other.state, response))
             IN /\ other' = [pc |-> "ROUTE", state |-> st]
                /\ checkpoint' = dumps(st)
    /\ UNCHANGED <<state, pc, max_iterations, approval_required,
                   final_messages, route, reason_steps, always_tools, turns,
                   prompt, results, executed,
                   command, memory, call>>

\* the conditional edge of the second session; its turn ends
OtherRoute ==
    /\ other.pc = "ROUTE"
    /\ route_target(should_continue(other.state)) = "DONE"
    /\ other' = [other EXCEPT !.pc = "DONE"]
    /\ UNCHANGED <<state, checkpoint, pc, max_iterations, approval_required,
                   final_messages, route, reason_steps, always_tools, turns,
                   prompt, results, executed,
                   command, memory, call>>

NextTwo ==
    \/ Next
    \/ OtherProcessMessage
    \/ OtherAgentNode
    \/ OtherRoute

SpecTwo == InitTwo /\ [][NextTwo]_vars

\* ------------------------------------------------------ interrupt (Ctrl-C)
\* a session on a fresh thread
InitInterrupt ==
    /\ Init
    /\ state = EmptyState

\* the interrupt signal arrives.  While console.input reads, the handler of
\* the loop prints its hint and the loop goes on reading.  While
\* _process_message is awaited, the turn is left where it is: the awaited
\* call does not return
Interrupt ==
    /\ pc \in {"IDLE", "DONE", "REASON", "ROUTE", "APPROVE", "EXECUTE_TOOLS"}
    /\ pc' = IF pc \in {"IDLE", "DONE"} THEN "IDLE" ELSE "INTERRUPTED"
    /\ UNCHANGED <<state, checkpoint, max_iterations, approval_required,
                   final_messages, route, reason_steps, always_tools, turns,
                   prompt, results, executed, other,
                   command, memory, call>>

\* after the interrupt the session, or the next one, reads the thread's
\* state again
AfterInterrupt ==
    /\ pc = "INTERRUPTED"
    /\ state' = loads(checkpoint)
    /\ pc' = "IDLE"
    /\ prompt' = NoPrompt
    /\ results' = <<>>
    /\ UNCHANGED <<checkpoint, max_iterations, approval_required,
                   final_messages, route, reason_steps, always_tools, turns,
                   executed, other,
                   command, memory, call>>

NextInterrupt ==
    \/ Next
    \/ Interrupt
    \/ AfterInterrupt

SpecInterrupt == InitInterrupt /\ [][NextInterrupt]_vars

\* ------------------------------------------------- restart at the approval
\* the ids of the tool calls of a history that no later tool message answers
unanswered(messages) ==
    UNION {{messages[i].tool_calls[j].id : j \in 1..Len(messages[i].tool_calls)} :
             i \in 1..Len(messages)}
    \ {messages[i].tool_call_id :
        i \in {k \in 1..Len(messages) : messages[k].type = "tool"}}

\* a session on a fresh thread, with the approval gate in use
InitResume ==
    /\ Init
    /\ state = EmptyState
    /\ approval_required = TRUE

\* the process is stopped while approval_node waits for the reviewer, and
\* chat is started again on the thread: _chat reads the thread's state and
\* waits for the user, it has no call that takes the graph up where it
\* stopped.  The restart is taken at the first approval of the thread
RestartAtGate ==
    /\ pc = "APPROVE"
    /\ prompt.reply = "none"
    /\ Len(state["messages"]) = 2
    /\ state' = loads(checkpoint)
    /\ pc' = "IDLE"
    /\ turns' = 0
    /\ reason_steps' = 0
    /\ UNCHANGED <<checkpoint, max_iterations, approval_required,
                   final_messages, route, always_tools, prompt, results,
                   executed, other,
                   command, memory, call>>

NextResume ==
    \/ Next
    \/ RestartAtGate

SpecResume == InitResume /\ [][NextResume]_vars


\* ------------------------------------------- agent_node on arbitrary inputs
\* a history of n messages in which the positions in sys hold system
\* messages, the others human and assistant messages in turn; the i-th
\* message has i characters, except that position at has the content long
node_history(n, sys, at, long) ==
    [i \in 1..n |->
        LET content == IF i = at THEN long ELSE Rep("m", i)
        IN IF i \in sys THEN SystemMessage(content)
           ELSE IF i % 2 = 1 THEN HumanMessage(content)
           ELSE AIMessage(content, <<>>)]

\* contents around the max_text_chars limit: exactly at it, one above it,
\* 12,000 characters, and a content that was cut before
LongTexts ==
    {Rep("x", max_text_chars),
     Rep("x", max_text_chars + 1),
     Concat(Rep("u", 5), Rep("v", 11995)),
     Concat(Rep("x", max_text_chars), marker)}

\* a history of n messages whose first turn used a tool: the user message,
\* the assistant message asking for read_file, the tool's result, the
\* answer, then user messages and answers in turn
tool_history(n) ==
    [i \in 1..n |->
        IF i = 2 THEN AIMessage(Rep("m", i), new_tool_calls(2, 1))
        ELSE IF i = 3 THEN ToolMessage(Rep("r", 3), 21)
        ELSE IF i = 4 THEN AIMessage(Rep("m", i), <<>>)
        ELSE IF i % 2 = 1 THEN HumanMessage(Rep("m", i))
        ELSE AIMessage(Rep("m", i), <<>>)]

NodeHistories ==
    UNION {{node_history(n, sys, 0, <<>>) : sys \in {{}, {1}, {2, n}}} :
              n \in {0, 1, 15, 16, 17, 20}}
    \cup {tool_history(n) : n \in {5, 15, 17, 19}}
    \cup
    UNION {{node_history(n, sys, at, long) :
               sys \in {{}, {2, n}}, at \in {1, n}, long \in LongTexts} :
              n \in {1, 16, 20}}

\* the states agent_node is applied to: with and without an iteration
\* count, with the other fields set
NodeInputs ==
    {[messages |-> h] : h \in NodeHistories}
    \cup {[messages |-> h,
           iteration_count |-> c,
           approval_granted |-> TRUE,
           pending_approval |-> FALSE,
           current_mode |-> "ASK",
           working_directory |-> "wd",
           tool_calls_made |-> <<>>,
           files_modified |-> <<>>] : h \in NodeHistories, c \in {0, 2}}

InitNode ==
    /\ state \in NodeInputs
    /\ checkpoint = dumps(state)
    /\ pc = "REASON"
    /\ max_iterations = MaxIterationsCap
    /\ approval_required = FALSE
    /\ final_messages = <<>>
    /\ route = "none"
    /\ reason_steps = 0
    /\ always_tools = TRUE
    /\ turns = 0
    /\ prompt = NoPrompt
    /\ results = <<>>
    /\ executed = {}
    /\ other = NoSession
    /\ command = NoCommand
    /\ memory = <<>>
    /\ call = NoCall

NextNode ==
    \/ AgentNode
    \/ AgentNodeFail

SpecNode == InitNode /\ [][NextNode]_vars


\* ------------------------------------------------------------------ claims
\* helpers of the properties
IsNotSystem(m) == m.type # "system"

NonSystem(messages) == SelectSeq(messages, IsNotSystem)

LastOf(messages) == messages[Len(messages)]

HasToolCalls(m) == m.type = "ai" /\ Len(m.tool_calls) >= 1

Min(a, b) == IF a <= b THEN a ELSE b

\* content[k:]
RECURSIVE DropChars(_, _)
DropChars(s, k) ==
    IF k <= 0 \/ s = <<>> THEN s
    ELSE IF s[1].n <= k THEN DropChars(Tail(s), k - s[1].n)
    ELSE <<[c |-> s[1].c, n |-> s[1].n - k]>> \o Tail(s)

\* the most recent assistant message of a history (none: a message
\* without tool calls)
RECURSIVE MostRecentAssistant(_)
MostRecentAssistant(messages) ==
    IF messages = <<>> THEN AIMessage(<<>>, <<>>)
    ELSE IF LastOf(messages).type = "ai" THEN LastOf(messages)
    ELSE MostRecentAssistant(SubSeq(messages, 1, Len(messages) - 1))

\* the decision rules (2) and (3) for a message
DecisionFor(has_calls) ==
    IF has_calls
    THEN IF approval_required THEN "request_approval" ELSE "continue"
    ELSE "end"

HasHistory == "messages" \in DOMAIN state /\ state["messages"] # <<>>

IterationCount == Get(state, "iteration_count", 0)

\* a step of agent_node, answered or failed
AgentNodeStep == pc = "REASON" /\ pc' \in {"ROUTE", "ABORTED"}

\* C1: in every state whose iteration_count has reached max_iterations the
\* routing decision is "end", with or without tool calls on the last
\* message and for either value of approval_required.
C1_CapEndsRouting ==
    IterationCount >= max_iterations => should_continue(state) = "end"

C1_Witness ==
    /\ pc = "ROUTE"
    /\ IterationCount >= max_iterations
    /\ HasToolCalls(LastOf(state["messages"]))
    /\ approval_required

\* C2 as stated: below the cap the decision follows the tool calls of the
\* most recent assistant message.
C2_MostRecentAssistantDecides ==
    (HasHistory /\ IterationCount < max_iterations) =>
        should_continue(state) =
            DecisionFor(HasToolCalls(MostRecentAssistant(state["messages"])))

\* C2 amended: below the cap the decision follows the last message of the
\* history: request_approval or continue when it is an assistant message
\* with tool calls, end otherwise.
C2_LastMessageDecides ==
    (HasHistory /\ IterationCount < max_iterations) =>
        should_continue(state) =
            DecisionFor(HasToolCalls(LastOf(state["messages"])))

C2_Witness ==
    /\ pc = "ROUTE"
    /\ IterationCount < max_iterations
    /\ HasToolCalls(LastOf(state["messages"]))
    /\ approval_required
    /\ should_continue(state) = "request_approval"

\* C3: from the seeding of the user message until the turn is over the
\* iteration count stays within max_iterations, and agent_node is only
\* entered below max_iterations.
C3_CountWithinCap ==
    /\ pc \in {"REASON", "ROUTE", "APPROVE", "EXECUTE_TOOLS", "DONE", "ABORTED"}
          => IterationCount <= max_iterations
    /\ pc = "REASON" => IterationCount < max_iterations

C3_Witness ==
    /\ pc = "REASON"
    /\ reason_steps >= 1
    /\ IterationCount = max_iterations - 1

\* C4: a turn in which every answer of the model carried a tool call ends
\* after exactly max_iterations agent_node steps, with iteration_count =
\* max_iterations, the decision "end", and tool calls on the last answer.
C4_AlwaysToolsEndsAtCap ==
    (pc = "DONE" /\ always_tools) =>
        /\ reason_steps = max_iterations
        /\ IterationCount = max_iterations
        /\ route = "end"
        /\ HasToolCalls(LastOf(state["messages"]))

C4_Witness ==
    /\ pc = "DONE"
    /\ always_tools
    /\ max_iterations = 3
    /\ reason_steps = 3

\* C5: an answered agent_node step appends one assistant message to the
\* history, leaves the earlier messages in place (their content is all that
\* may differ), sets iteration_count to the former value (0 when absent)
\* plus 1, and changes no other field.
C5_AgentNodeFrame ==
    [][(pc = "REASON" /\ pc' = "ROUTE") =>
        LET old == state["messages"]
            new == state'["messages"]
        IN /\ Len(new) = Len(old) + 1
           /\ new[Len(new)].type = "ai"
           /\ \A i \in 1..Len(old) :
                 [new[i] EXCEPT !.content = old[i].content] = old[i]
           /\ state'["iteration_count"] = Get(state, "iteration_count", 0) + 1
           /\ DOMAIN state' = DOMAIN state \cup {"iteration_count"}
           /\ \A k \in DOMAIN state \ {"messages", "iteration_count"} :
                 state'[k] = state[k]]_vars

C5_Witness ==
    /\ pc = "ROUTE"
    /\ state["iteration_count"] = 3
    /\ state["approval_granted"] = TRUE
    /\ state["current_mode"] = "ASK"
    /\ Len(state["messages"]) = 21

C5_WitnessAbsent ==
    /\ pc = "ROUTE"
    /\ state["iteration_count"] = 1
    /\ "approval_granted" \notin DOMAIN state

\* C6: when the call to the model fails the state is what it was before
\* agent_node began.
C6_FailureLeavesState ==
    [][(pc = "REASON" /\ pc' = "ABORTED") => state' = state]_vars

\* C7 as stated: a history of more than max_recent_messages messages gives
\* max_recent_messages entries after the system message.
C7_LongHistoryFillsWindow ==
    [][AgentNodeStep =>
        (Len(state["messages"]) > max_recent_messages
            => Len(final_messages') - 1 = max_recent_messages)]_vars

\* C7 amended: a history with more than max_recent_messages messages that
\* are not system messages gives max_recent_messages entries after the
\* system message.
C7_LongNonSystemHistoryFillsWindow ==
    [][AgentNodeStep =>
        (Len(NonSystem(state["messages"])) > max_recent_messages
            => Len(final_messages') - 1 = max_recent_messages)]_vars

C7_Witness ==
    /\ pc = "ROUTE"
    /\ Len(state["messages"]) = 21
    /\ Len(NonSystem(state["messages"])) = 21
    /\ Len(final_messages) = 16

\* C8: an entry of the list sent to the model whose message had more than
\* max_text_chars characters has max_text_chars + len(marker) characters:
\* the first max_text_chars of the original, then the marker; an entry
\* whose message had at most max_text_chars characters has its content.
C8_TruncatedContent ==
    [][AgentNodeStep =>
        LET nonsys == NonSystem(state["messages"])
            sent == Tail(final_messages')
            off == Len(nonsys) - Len(sent)
        IN \A j \in 1..Len(sent) :
              LET orig == nonsys[off + j].content
                  cut == sent[j].content
              IN IF len(orig) > max_text_chars
                 THEN /\ len(cut) = max_text_chars + len(marker)
                      /\ Slice(cut, max_text_chars) = Slice(orig, max_text_chars)
                      /\ DropChars(cut, max_text_chars) = marker
                 ELSE cut = orig]_vars

C8_Witness ==
    /\ pc = "ROUTE"
    /\ Len(final_messages) = 2
    /\ final_messages[2].content = Concat(Concat(Rep("u", 5), Rep("v", 9995)), marker)
    /\ len(final_messages[2].content) = 10034

C8_WitnessAtLimit ==
    /\ pc = "ROUTE"
    /\ Len(final_messages) = 2
    /\ final_messages[2].content = Rep("x", max_text_chars)

\* C9: the list sent to the model is never empty, starts with the fresh
\* system message, and holds no system message after it.
C9_FreshSystemMessageOnly ==
    [][AgentNodeStep =>
        /\ Len(final_messages') >= 1
        /\ final_messages'[1] = SystemMessage(full_system_prompt)
        /\ \A i \in 2..Len(final_messages') : final_messages'[i].type # "system"]_vars

C9_Witness ==
    /\ pc = "ROUTE"
    /\ \E i \in 1..Len(state["messages"]) : state["messages"][i].type = "system"
    /\ Len(final_messages) = 16

C9_WitnessEmpty ==
    /\ pc = "ROUTE"
    /\ Len(state["messages"]) = 1
    /\ final_messages = <<SystemMessage(full_system_prompt)>>

\* C10: after the system message the list holds the last
\* min(k, max_recent_messages) of the k messages that are not system
\* messages, in their order, each once (content aside).
C10_WindowIsSuffix ==
    [][AgentNodeStep =>
        LET nonsys == NonSystem(state["messages"])
            sent == Tail(final_messages')
            off == Len(nonsys) - Len(sent)
        IN /\ Len(sent) = Min(Len(nonsys), max_recent_messages)
           /\ \A j \in 1..Len(sent) :
                 [sent[j] EXCEPT !.content = nonsys[off + j].content]
                     = nonsys[off + j]]_vars

C10_Witness ==
    /\ pc = "ROUTE"
    /\ Len(NonSystem(state["messages"])) = 19
    /\ Len(state["messages"]) = 21
    /\ Len(final_messages) = 16
    /\ final_messages[2].content = Rep("m", 5)
    /\ final_messages[16].content = Rep("m", 19)

\* a step of approval_node: the prompt is answered
ApprovalNodeStep == pc = "APPROVE" /\ prompt.reply = "none" /\ prompt'.reply # "none"

\* C11: a step of the approval gate sets approval_granted to the reviewer's
\* decision and pending_approval to false, and changes no other field of the
\* state: the history and every other field are what they were.
C11_ApprovalGateFrame ==
    [][ApprovalNodeStep =>
        /\ state'["approval_granted"] = (prompt'.reply # "n")
        /\ state'["pending_approval"] = FALSE
        /\ DOMAIN state' = DOMAIN state \cup {"approval_granted", "pending_approval"}
        /\ \A k \in DOMAIN state \ {"approval_granted", "pending_approval"} :
              state'[k] = state[k]]_vars

C11_Witness ==
    /\ pc = "EXECUTE_TOOLS"
    /\ prompt.reply = "y"
    /\ state["approval_granted"] = TRUE
    /\ state["pending_approval"] = FALSE
    /\ state["iteration_count"] = 2

C11_WitnessDenied ==
    /\ pc = "APPROVE"
    /\ prompt.reply = "n"
    /\ state["approval_granted"] = FALSE
    /\ state["pending_approval"] = FALSE
    /\ Len(state["messages"]) = 22

\* the content of a rejection message
rejected == Text(<<"n", "o">>)

\* C12: when the reviewer denies, the next step leads from APPROVE to REASON
\* and appends one rejection message per denied call, in call order and with
\* the id of its call; none of the denied calls is executed by it;
\* pending_approval is false afterwards; and a call answered by a rejection
\* message is never among the executed calls.
C12_DenialRejectsEveryCall ==
    /\ [][(pc = "APPROVE" /\ prompt.reply = "n") =>
            LET calls == prompt.calls
                old == state["messages"]
                new == state'["messages"]
            IN /\ pc' = "REASON"
               /\ executed' = executed
               /\ Len(new) = Len(old) + Len(calls)
               /\ SubSeq(new, 1, Len(old)) = old
               /\ \A i \in 1..Len(calls) :
                     new[Len(old) + i] = ToolMessage(rejected, calls[i].id)
               /\ state'["pending_approval"] = FALSE]_vars
    /\ [](HasHistory =>
            \A i \in 1..Len(state["messages"]) :
               (state["messages"][i].type = "tool"
                  /\ state["messages"][i].content = rejected)
               => state["messages"][i].tool_call_id \notin executed)

C12_Witness ==
    /\ pc = "REASON"
    /\ prompt = NoPrompt
    /\ "approval_granted" \in DOMAIN state
    /\ state["approval_granted"] = FALSE
    /\ state["pending_approval"] = FALSE
    /\ Len(state["messages"]) = 24
    /\ state["messages"][22].tool_calls # <<>>
    /\ state["messages"][23] = ToolMessage(rejected, state["messages"][22].tool_calls[1].id)
    /\ state["messages"][24] = ToolMessage(rejected, state["messages"][22].tool_calls[2].id)
    /\ executed = {}

\* a step of the running loop from one orchestrator state to another: not
\* the start of a turn, not the end of the session by a provider error
OrchestratorStep ==
    /\ turns' = turns
    /\ pc' # pc
    /\ pc \in {"REASON", "ROUTE", "APPROVE", "EXECUTE_TOOLS", "DONE"}
    /\ pc' # "ABORTED"

\* C13: a turn starts in REASON; the loop takes only the steps REASON->ROUTE,
\* ROUTE->DONE on end, ROUTE->APPROVE on request_approval,
\* ROUTE->EXECUTE_TOOLS on continue, APPROVE->EXECUTE_TOOLS when approved,
\* APPROVE->REASON when denied, EXECUTE_TOOLS->REASON; with approval_required
\* EXECUTE_TOOLS is entered only from an APPROVE step that showed the calls
\* and granted them; and a turn that is DONE takes no further step.
C13_OnlyListedTransitions ==
    /\ [][turns' # turns => (pc \in {"IDLE", "DONE"} /\ pc' = "REASON")]_vars
    /\ [][OrchestratorStep =>
            \/ pc = "REASON" /\ pc' = "ROUTE"
            \/ pc = "ROUTE" /\ pc' = "DONE" /\ route' = "end"
            \/ pc = "ROUTE" /\ pc' = "APPROVE" /\ route' = "request_approval"
            \/ pc = "ROUTE" /\ pc' = "EXECUTE_TOOLS" /\ route' = "continue"
            \/ pc = "APPROVE" /\ pc' = "EXECUTE_TOOLS"
                  /\ state'["approval_granted"] = TRUE
            \/ pc = "APPROVE" /\ pc' = "REASON"
                  /\ state["approval_granted"] = FALSE
            \/ pc = "EXECUTE_TOOLS" /\ pc' = "REASON"]_vars
    /\ [][(approval_required /\ pc # "EXECUTE_TOOLS" /\ pc' = "EXECUTE_TOOLS") =>
            /\ pc = "APPROVE"
            /\ prompt'.reply \in {"y", ""}
            /\ prompt'.calls = state'["messages"][Len(state'["messages"])].tool_calls
            /\ prompt'.calls # <<>>
            /\ state'["approval_granted"] = TRUE]_vars
    /\ []((approval_required /\ pc = "EXECUTE_TOOLS")
             => Get(state, "approval_granted", FALSE) = TRUE)
    /\ [][(pc = "DONE" /\ turns' = turns) => pc' = "DONE"]_vars

C13_Witness ==
    /\ pc = "DONE"
    /\ approval_required
    /\ reason_steps = 3
    /\ executed # {}
    /\ \E i \in 1..Len(state["messages"]) : state["messages"][i].content = rejected

C13_WitnessAuto ==
    /\ pc = "EXECUTE_TOOLS"
    /\ ~approval_required
    /\ route = "continue"
    /\ reason_steps = 2

\* a transition of the loop is about to begin
AtTransitionStart == pc \in {"REASON", "ROUTE", "APPROVE", "EXECUTE_TOOLS"}

\* C14: whenever a transition of the loop is about to begin, the latest
\* checkpoint of the thread is the snapshot of the state in memory, and
\* reading it back gives that state.
C14_CheckpointIsState ==
    AtTransitionStart => (checkpoint = dumps(state) /\ loads(checkpoint) = state)

C14_Witness ==
    /\ pc = "REASON"
    /\ reason_steps = 2
    /\ Len(state["messages"]) = 7
    /\ Len(checkpoint["messages"]) = 7
    /\ checkpoint["messages"][7][1] = "tool"
    /\ checkpoint["iteration_count"] = 2

\* the fields of a state the round trip is about
RoundTripFields ==
    {"messages", "iteration_count", "current_mode", "approval_granted",
     "pending_approval"}

\* two states agree on a field: both lack it or both hold the same value
SameField(a, b, k) ==
    /\ (k \in DOMAIN a) = (k \in DOMAIN b)
    /\ k \in DOMAIN a => a[k] = b[k]

C15_WitnessNoCheckpoint ==
    /\ pc = "IDLE"
    /\ turns = 0
    /\ checkpoint = dumps(EmptyState)
    /\ state = EmptyState

\* C16: the tool step appends one result message per call of the last
\* assistant message, in the order of the calls and each with the id of its
\* call and the result that call produced, whatever the order in which the
\* calls completed.
C16_ResultsInCallOrder ==
    [][(pc = "EXECUTE_TOOLS" /\ pc' = "REASON") =>
        LET old == state["messages"]
            new == state'["messages"]
            calls == old[Len(old)].tool_calls
        IN /\ Len(new) = Len(old) + Len(calls)
           /\ SubSeq(new, 1, Len(old)) = old
           /\ \A i \in 1..Len(calls) :
                 /\ new[Len(old) + i].type = "tool"
                 /\ new[Len(old) + i].tool_call_id = calls[i].id
                 /\ \E j \in 1..Len(results) :
                       /\ results[j].tool_call_id = calls[i].id
                       /\ results[j].content = new[Len(old) + i].content]_vars

C16_Witness ==
    /\ pc = "REASON"
    /\ Len(state["messages"]) = 4
    /\ state["messages"][2].tool_calls # <<>>
    /\ Len(results) = 2
    /\ results[1].tool_call_id = state["messages"][2].tool_calls[2].id
    /\ results[2].tool_call_id = state["messages"][2].tool_calls[1].id
    /\ state["messages"][3].tool_call_id = state["messages"][2].tool_calls[1].id
    /\ state["messages"][4].tool_call_id = state["messages"][2].tool_calls[2].id

\* both sessions have ended their turn
BothDone == pc = "DONE" /\ other.pc = "DONE"

\* C17: when two sessions on one thread have both ended their turn, the
\* latest checkpoint is one a sequential execution of the two turns leaves:
\* it holds the user message of the second session and every user message of
\* the first, and every user message in it is followed by the answer to it,
\* not by another user message.
C17_CheckpointIsSequential ==
    BothDone =>
        LET ms == loads(checkpoint)["messages"]
            humans == {i \in 1..Len(ms) : ms[i].type = "human"}
        IN /\ \E i \in humans : ms[i].content = OtherInput
           /\ Cardinality(humans) = turns + 1
           /\ \A i \in humans : i < Len(ms) /\ ms[i + 1].type = "ai"

\* C17: the two sessions are never both inside a turn.
C17_TurnsNeverOverlap ==
    ~(pc \in {"REASON", "ROUTE", "APPROVE", "EXECUTE_TOOLS"}
        /\ other.pc \in {"REASON", "ROUTE"})

\* C18: a reasoning call or a tool execution that has begun runs to its
\* end whatever signal arrives: from REASON the loop goes on to ROUTE (or the
\* provider error ends the turn), from EXECUTE_TOOLS it goes on to REASON.
C18_CallsRunToTheirEnd ==
    [][/\ pc = "REASON" => pc' \in {"REASON", "ROUTE", "ABORTED"}
       /\ pc = "EXECUTE_TOOLS" => pc' \in {"EXECUTE_TOOLS", "REASON"}]_vars

\* C18: the interrupt leaves the latest checkpoint of the thread as it is.
C18_InterruptKeepsCheckpoint ==
    [][(pc' = "INTERRUPTED" \/ pc = "INTERRUPTED") => checkpoint' = checkpoint]_vars

\* C18: a tool call was executed, the turn was interrupted, and the thread's
\* state holds no result for the call.
C18_ExecutedCallWithoutResult ==
    /\ pc = "IDLE"
    /\ executed # {}
    /\ \A i \in 1..Len(state["messages"]) : state["messages"][i].type # "tool"

\* C19: the reasoning capability is not invoked while tool calls of the
\* history wait for the reviewer: at every step of agent_node each tool call
\* of the history has its result or its rejection.
C19_NoReasoningWhileCallsPending ==
    [][AgentNodeStep => unanswered(state["messages"]) = {}]_vars

\* C19: after a restart at the gate the calls that waited are shown to the
\* reviewer before anything is added to the history.
C19_RestartShowsPendingCalls ==
    [][(pc = "IDLE" /\ HasHistory /\ unanswered(state["messages"]) # {})
          => (pc' \in {"IDLE", "APPROVE"} /\ state' = state)]_vars

\* a step of the conditional edge
RouteStep == pc = "ROUTE" /\ pc' # "ROUTE"

\* C20: a routing step leaves the state and its checkpoint as they were, its
\* decision is the value of should_continue on that state, and applying
\* should_continue again to the state after the step gives the same decision.
C20_RoutingIsPure ==
    [][RouteStep =>
        /\ state' = state
        /\ checkpoint' = checkpoint
        /\ route' = should_continue(state)
        /\ should_continue(state') = route']_vars

C20_Witness ==
    /\ pc = "APPROVE"
    /\ route = "request_approval"
    /\ state["iteration_count"] = 2
    /\ max_iterations = 3
    /\ should_continue(state) = "request_approval"

C20_WitnessAtCap ==
    /\ pc = "DONE"
    /\ route = "end"
    /\ state["iteration_count"] = max_iterations
    /\ HasToolCalls(LastOf(state["messages"]))

\* C21 as stated: over every step on the thread, the start of a new turn
\* included, iteration_count does not decrease.
C21_CountNeverDecreases ==
    [][Get(state', "iteration_count", 0) >= IterationCount]_vars

\* C21: iteration_count is never negative; over the steps of one turn it
\* does not decrease; the start of a turn sets it to 0.
C21_CountMonotonicWithinTurn ==
    /\ [](IterationCount >= 0)
    /\ [][turns' = turns => Get(state', "iteration_count", 0) >= IterationCount]_vars
    /\ [][turns' # turns => Get(state', "iteration_count", 0) = 0]_vars

C21_Witness ==
    /\ pc = "REASON"
    /\ turns = 1
    /\ Len(state["messages"]) = 24
    /\ state["iteration_count"] = 1
    /\ state["messages"][22].tool_calls # <<>>


\* the loop waits at the approval gate for the reviewer's answer
SuspendedAtGate == pc = "APPROVE" /\ prompt.reply = "none"

\* C22: while the loop waits at the approval gate for the reviewer,
\* pending_approval is true.
C22_PendingWhileSuspended ==
    SuspendedAtGate => Get(state, "pending_approval", FALSE) = TRUE

\* C22: pending_approval is true only while the loop waits at the approval
\* gate.
C22_PendingOnlyAtGate ==
    Get(state, "pending_approval", FALSE) = TRUE => SuspendedAtGate

\* the content cut is what is left of the content orig, longer than
\* max_text_chars, after the truncation: its first max_text_chars characters
\* and the marker
IsTruncationOf(cut, orig) ==
    /\ len(cut) = max_text_chars + len(marker)
    /\ Slice(cut, max_text_chars) = Slice(orig, max_text_chars)
    /\ DropChars(cut, max_text_chars) = marker

\* C23 as stated: after a step of agent_node every message of the history
\* that had more than max_text_chars characters holds the truncated content
\* in the state.
C23_EveryLongMessageRewritten ==
    [][AgentNodeStep =>
        \A i \in 1..Len(state["messages"]) :
           len(state["messages"][i].content) > max_text_chars
           => IsTruncationOf(state'["messages"][i].content,
                             state["messages"][i].content)]_vars

\* C23: after a step of agent_node, answered or failed, every message of the
\* history that is not a system message and had more than max_text_chars
\* characters holds the truncated content in the state, which differs from
\* the original unless the original was the result of a truncation; no such
\* message of the state is longer than max_text_chars plus the marker; a
\* system message and a message of at most max_text_chars characters keep
\* their content.
C23_StoredMessageRewritten ==
    [][AgentNodeStep =>
        \A i \in 1..Len(state["messages"]) :
           LET orig == state["messages"][i].content
               now == state'["messages"][i].content
           IN IF state["messages"][i].type # "system" /\ len(orig) > max_text_chars
              THEN /\ IsTruncationOf(now, orig)
                   /\ len(now) <= max_text_chars + len(marker)
                   /\ (now = orig) = (DropChars(orig, max_text_chars) = marker)
              ELSE now = orig]_vars

C23_Witness ==
    /\ pc = "ROUTE"
    /\ Len(state["messages"]) = 21
    /\ state["messages"][20].type = "ai"
    /\ state["messages"][20].content = Concat(Concat(Rep("u", 5), Rep("v", 9995)), marker)
    /\ checkpoint["messages"][20][2] = state["messages"][20].content

C23_WitnessFailed ==
    /\ pc = "ABORTED"
    /\ Len(state["messages"]) = 1
    /\ state["messages"][1].content = Concat(Rep("x", max_text_chars), marker)
    /\ checkpoint["messages"][1][2] = Rep("x", max_text_chars + 1)

\* C24: every turn that is seeded reaches DONE, whatever the model, the
\* tools and the reviewer answer, when each of their answers arrives; and a
\* turn takes at most max_iterations agent_node steps.
C24_TurnTerminates ==
    /\ (pc = "REASON" /\ reason_steps = 0) ~> (pc = "DONE")
    /\ [](reason_steps <= max_iterations)

C24_Witness ==
    /\ pc = "DONE"
    /\ approval_required
    /\ max_iterations = 3
    /\ reason_steps = 3
    /\ executed # {}
    /\ route = "end"




\* C25: at the approval prompt the empty reply approves: approval_granted
\* becomes true and the loop goes on to the execution of the pending calls;
\* approval is denied exactly when the reply is the explicit no.
C25_EmptyReplyApproves ==
    [][ApprovalNodeStep =>
        /\ prompt'.reply = "" =>
              (state'["approval_granted"] = TRUE /\ pc' = "EXECUTE_TOOLS")
        /\ (state'["approval_granted"] = FALSE) = (prompt'.reply = "n")
        /\ (pc' = "EXECUTE_TOOLS") = (prompt'.reply # "n")]_vars

C25_Witness ==
    /\ pc = "EXECUTE_TOOLS"
    /\ prompt.reply = ""
    /\ prompt.calls # <<>>
    /\ state["approval_granted"] = TRUE
    /\ results = <<>>

\* the mode a /mode argument names, whatever its case; "none" for a word
\* that names no mode
ModeNamed(word) ==
    CASE word \in {"code", "Code", "CODE"} -> "CODE"
      [] word \in {"architect", "Architect", "ARCHITECT"} -> "ARCHITECT"
      [] word \in {"ask", "Ask", "ASK"} -> "ASK"
      [] OTHER -> "none"

\* C26: a /mode command given a mode name, in any case, and a context with
\* update_state sets current_mode to that mode and changes nothing else;
\* without argument, with a word that names no mode, or without
\* update_state in its context it leaves the whole state as it is; messages,
\* iteration_count and the approval fields are never changed.
C26_ModeCommandFrame ==
    [][command'.ran =>
        LET args == command'.args
            mode == IF args = <<>> THEN "none" ELSE ModeNamed(args[1])
        IN /\ IF mode # "none" /\ "update_state" \in command'.context
              THEN /\ Get(state', "current_mode", "none") = mode
                   /\ DOMAIN state' = DOMAIN state \cup {"current_mode"}
                   /\ \A k \in DOMAIN state \ {"current_mode"} : state'[k] = state[k]
              ELSE state' = state
           /\ \A k \in {"messages", "iteration_count", "approval_granted",
                        "pending_approval"} : SameField(state', state, k)
           /\ Get(state', "current_mode", "CODE") \in {"CODE", "ARCHITECT", "ASK"}]_vars

C26_Witness ==
    /\ command = [args |-> <<"Architect">>,
                  context |-> {"get_state", "update_state"}, ran |-> TRUE]
    /\ Get(state, "current_mode", "CODE") = "ARCHITECT"
    /\ Get(state, "iteration_count", 0) = 2
    /\ Get(state, "approval_granted", FALSE)
    /\ Len(Get(state, "messages", <<>>)) > 0

C26_WitnessFresh ==
    /\ command = [args |-> <<"code">>,
                  context |-> {"get_state", "update_state"}, ran |-> TRUE]
    /\ state = [current_mode |-> "CODE"]

C26_WitnessInvalid ==
    /\ command = [args |-> <<"fast">>,
                  context |-> {"get_state", "update_state"}, ran |-> TRUE]
    /\ state = EmptyState


\* C27: ConversationMemory keeps its messages in append order: an add puts
\* one message of its kind at the end and leaves the earlier ones in place,
\* clear leaves the store empty, get_messages returns the whole store,
\* get_last_n_messages(n) returns the last min(n, len) messages in store
\* order for n > 0 and the empty list for n <= 0, and neither read changes
\* the store.
C27_MemoryKeepsAppendOrder ==
    [][LET op == call'.op
           stored == Len(memory)
       IN /\ op \in {"add_user_message", "add_ai_message"} =>
                /\ Len(memory') = stored + 1
                /\ \A i \in 1..stored : memory'[i] = memory[i]
                /\ memory'[stored + 1].content = call'.arg
                /\ memory'[stored + 1].type =
                       (IF op = "add_user_message" THEN "human" ELSE "ai")
          /\ op = "clear" => memory' = <<>>
          /\ op = "get_messages" => call'.value = memory /\ memory' = memory
          /\ op = "get_last_n_messages" =>
                LET n == call'.arg
                    k == IF n <= 0 THEN 0 ELSE Min(n, stored)
                IN /\ Len(call'.value) = k
                   /\ \A i \in 1..k : call'.value[i] = memory[stored - k + i]
                   /\ memory' = memory]_vars

C27_Witness ==
    /\ call.op = "get_last_n_messages"
    /\ call.arg = 2
    /\ Len(memory) = 3
    /\ memory[1].type = "human" /\ memory[2].type = "ai"
    /\ call.value = <<memory[2], memory[3]>>

C27_WitnessZero ==
    /\ call.op = "get_last_n_messages"
    /\ call.arg = 0
    /\ Len(memory) = 2
    /\ call.value = <<>>

C27_WitnessMore ==
    /\ call.op = "get_last_n_messages"
    /\ call.arg = MaxStored + 1
    /\ Len(memory) = 2
    /\ call.value = memory

\* the history agent_node has processed: the thread's messages without the
\* answer the node appended
Processed ==
    IF pc = "ROUTE"
    THEN SubSeq(state["messages"], 1, Len(state["messages"]) - 1)
    ELSE state["messages"]

\* C28: the window construction run again over a history it has processed
\* gives the same stored contents and the same windowed list: a content cut
\* to max_text_chars plus the marker is not cut further and gets no second
\* marker.
C28_WindowingIdempotent ==
    /\ LET once == for_m_in_messages(Get(state, "messages", <<>>))
           twice == for_m_in_messages(once.stored)
       IN /\ twice.stored = once.stored
          /\ twice.processed = once.processed
          /\ build_final_messages(once.stored)
                 = build_final_messages(Get(state, "messages", <<>>))
    /\ pc \in {"ROUTE", "ABORTED"} =>
          /\ for_m_in_messages(Processed).stored = Processed
          /\ build_final_messages(Processed) = final_messages
          /\ \A i \in 1..Len(Processed) :
                Processed[i].type # "system" =>
                    len(Processed[i].content) <= max_text_chars + len(marker)

C28_Witness ==
    /\ pc = "ROUTE"
    /\ Len(Processed) = 20
    /\ Processed[20].content = Concat(Concat(Rep("u", 5), Rep("v", 9995)), marker)
    /\ final_messages[16] = Processed[20]
    /\ checkpoint["messages"][20][2] = Processed[20].content

C28_WitnessCutBefore ==
    /\ pc = "ABORTED"
    /\ Len(Processed) = 16
    /\ checkpoint["messages"][16][2] = Concat(Rep("x", max_text_chars), marker)
    /\ Processed[16].content = Concat(Rep("x", max_text_chars), marker)

\* the positions after i of the tool results that answer the call id
Answers(messages, i, id) ==
    {k \in (i + 1)..Len(messages) :
        messages[k].type = "tool" /\ messages[k].tool_call_id = id}

\* every call of the assistant message at i has one result after it
AllAnswered(messages, i) ==
    \A j \in 1..Len(messages[i].tool_calls) :
        Cardinality(Answers(messages, i, messages[i].tool_calls[j].id)) = 1

\* no call of the assistant message at i has a result after it
NoneAnswered(messages, i) ==
    \A j \in 1..Len(messages[i].tool_calls) :
        Answers(messages, i, messages[i].tool_calls[j].id) = {}

\* C29 (as stated): when a turn is DONE every tool call of an assistant
\* message of the history has exactly one tool result with its id later in
\* the history, the turn ended by the iteration cap included.
C29_EveryCallAnswered ==
    pc = "DONE" =>
        \A i \in 1..Len(state["messages"]) :
            HasToolCalls(state["messages"][i]) => AllAnswered(state["messages"], i)

\* C29 (amended): when a turn is DONE every tool call of an assistant
\* message has exactly one tool result with its id later in the history,
\* except the calls of the answer a turn ended on at the iteration cap: that
\* answer is the last message of its turn (the last of the history, or the
\* one before a later user message), none of its calls has a result, and
\* when it is the last of the history iteration_count >= max_iterations.
C29_CallsAnsweredUnlessCapped ==
    pc = "DONE" =>
        LET messages == state["messages"]
        IN \A i \in 1..Len(messages) :
              HasToolCalls(messages[i]) =>
                  \/ AllAnswered(messages, i)
                  \/ /\ NoneAnswered(messages, i)
                     /\ IF i = Len(messages)
                        THEN IterationCount >= max_iterations
                        ELSE messages[i + 1].type = "human"

C29_Witness ==
    /\ pc = "DONE"
    /\ max_iterations = 2
    /\ LET messages == state["messages"]
           n == Len(messages)
       IN /\ n = 3 + MaxToolCalls
          /\ HasToolCalls(messages[2]) /\ AllAnswered(messages, 2)
          /\ HasToolCalls(messages[n]) /\ NoneAnswered(messages, n)
          /\ state["iteration_count"] = 2


\* C30 (as stated): in every list sent to the model each tool message is
\* preceded, within the list, by the assistant message carrying the call it
\* answers.
C30_ToolResultFollowsItsCall ==
    \A k \in 1..Len(final_messages) :
        final_messages[k].type = "tool" =>
            \E i \in 1..(k - 1) :
                /\ HasToolCalls(final_messages[i])
                /\ \E j \in 1..Len(final_messages[i].tool_calls) :
                      final_messages[i].tool_calls[j].id = final_messages[k].tool_call_id


====
